---- MODULE Spec2Model ----
(***************************************************************************)
(* FinBot retrieval-augmented query pipeline.                              *)
(*                                                                         *)
(* RAGPipeline.query and RAGPipeline.chat (src/src/rag_pipeline.py), the   *)
(* generation gateway LlamaLLMService (src/src/llm/llama_service.py), the  *)
(* vector index client QdrantVectorDB (src/src/vectordb/qdrant_client.py), *)
(* the front service ChatbotService                                        *)
(* (src/backend/services/chatbot_service.py) and the multi-strategy        *)
(* retrieval of ContentExtractorAgent (src/src/agents/content_extractor.py)*)
(*                                                                         *)
(* The library classes are also specified on their own: _prepare_context  *)
(* (SpecContext), the two chunk_text (SpecChunk, src/src/utils/chunking.py *)
(* and src/src/Chunking/document_parser.py), the two index clients         *)
(* (SpecIndex, src/src/vectordb and src/src/vectorstore) and               *)
(* EmbeddingCache (SpecCache, src/src/embedding_service.py).               *)
(*                                                                         *)
(* Text is a sequence of characters; a fixed message of the program is a   *)
(* one-element sequence holding the whole message.  Scores are hundredths  *)
(* (85 stands for 0.85).  Every call to an external capability is logged   *)
(* in `calls` and either returns or raises, chosen by the environment.     *)
(***************************************************************************)
EXTENDS Integers, Sequences, FiniteSets, TLC

\* ------------------------------------------------------------------ bounds
\* records that can be in the collection
NumDocs == 2
\* longest conversation handed to chat
MaxTurns == 3
\* largest top_k the pipeline is constructed with
MaxTopK == 2

\* --------------------------------------------------------- program constants
\* max_context_length default of RAGPipeline.query
DefaultMaxContextLength == 2000
\* max_context_length that RAGPipeline.chat passes to _prepare_context
ChatMaxContextLength == 1500
\* "Leave some buffer" in _prepare_context
TruncationBuffer == 50
\* "Only add if meaningful content can fit" in _prepare_context
MinRemainingSpace == 100
\* length of the text preview of a source
PreviewLength == 200
\* limit of the direct topic search of the content extractor
DirectLimit == 10
\* limit of every other strategy search of the content extractor
StrategyLimit == 8
\* number of search strategies of the content extractor
NumStrategies == 5
\* score_threshold default of RAGPipeline.__init__ (0.7)
DefaultScoreThreshold == 70

\* ------------------------------------------------------------- text helpers
\* needle occurs in hay as a contiguous run of characters
IsSubstr(needle, hay) ==
    \E i \in 0..(Len(hay) - Len(needle)) :
        \A j \in 1..Len(needle) : hay[i + j] = needle[j]

RECURSIVE Join(_, _)
\* sep.join(parts)
Join(parts, sep) ==
    IF Len(parts) = 0 THEN <<>>
    ELSE IF Len(parts) = 1 THEN parts[1]
    ELSE parts[1] \o sep \o Join(Tail(parts), sep)

\* a slice that takes one character too many
PrefixInclusive(s, n) == SubSeq(s, 1, IF n + 1 < Len(s) THEN n + 1 ELSE Len(s))

\* s[:n] of Python, n may be negative
Prefix(s, n) ==
    IF n >= 0
    THEN SubSeq(s, 1, IF n < Len(s) THEN n ELSE Len(s))
    ELSE SubSeq(s, 1, IF Len(s) + n > 0 THEN Len(s) + n ELSE 0)

Digit(d) == <<"0", "1", "2", "3", "4", "5", "6", "7", "8", "9">>[d + 1]

\* f"{score:.2f}" for a score given in hundredths
Format2f(score) ==
    <<Digit(score \div 100), ".", Digit((score \div 10) % 10), Digit(score % 10)>>

Ellipsis == <<".", ".", ".">>

\* dict.get(key, default) on a dict held as a set of <<key, value>> pairs
Get(dict, key, default) ==
    IF \E p \in dict : p[1] = key
    THEN (CHOOSE p \in dict : p[1] = key)[2]
    ELSE default

\* ------------------------------------------------------------ the environment
T1 == <<"s", "t", "o", "c", "k", "s">>
T2 == <<"b", "o", "n", "d", "s">>
F1 == <<"a", ".", "p", "d", "f">>

\* the i-th record that may be stored: the first two share the text T1 under
\* different metadata, scores differ from record to record
Doc(i) ==
    [id       |-> i,
     text     |-> IF i <= 2 THEN T1 ELSE T2,
     metadata |-> IF i % 2 = 1 THEN {<<"filename", F1>>} ELSE {},
     score    |-> (95 - 30 * (i - 1)) % 101]

DocUniverse == {Doc(i) : i \in 1..NumDocs}

Questions == {<<"q1">>, <<"q2">>}
Contents == {<<>>, <<"q1">>, <<"q2">>}
Roles == {"user", "assistant"}
Message == [role : Roles, content : Contents]
Conversations == UNION {[1..n -> Message] : n \in 0..MaxTurns}

Topics == {<<"stocks">>, <<"bonds">>}
IncludeContexts == BOOLEAN
MaxContextLengths == {DefaultMaxContextLength, 20}
TopKs == 1..MaxTopK
ScoreThresholds == {0, DefaultScoreThreshold}
\* Optional[int] and Optional[float] of a request: <<>> stands for None
OptTopKs == {<<>>} \cup {<<k>> : k \in TopKs}
OptScoreThresholds == {<<>>, <<30>>}

\* str(e) of the exceptions the external capabilities raise
EmbedError == <<"embedding model unavailable">>
SearchError == <<"vector index unreachable">>
GenerateError == <<"generation failed">>
\* str(e) of the TypeError Python raises when a call names a parameter the
\* callee does not declare
KeywordError == <<"got an unexpected keyword argument">>

\* text the language model generates on success
ModelAnswer == <<"generated answer">>

\* ------------------------------------------------------------ vector index
\* similarity the index computes between the query vector of strategy
\* `variant` and a stored record (variant 1 is the plain query)
Sim(doc, variant) == (doc.score + 13 * (variant - 1)) % 101

\* the record ranked first among `docs`: highest similarity, lowest id on ties
Best(docs, variant) ==
    CHOOSE d \in docs : \A e \in docs :
        \/ Sim(d, variant) > Sim(e, variant)
        \/ Sim(d, variant) = Sim(e, variant) /\ d.id <= e.id

RECURSIVE Ranked(_, _, _)
\* at most `limit` records of `docs`, by descending similarity
Ranked(docs, limit, variant) ==
    IF docs = {} \/ limit <= 0 THEN <<>>
    ELSE LET b == Best(docs, variant)
         IN  <<b>> \o Ranked(docs \ {b}, limit - 1, variant)

\* one formatted result of QdrantVectorDB.search
FormatResult(d, variant) ==
    [id |-> d.id, text |-> d.text, score |-> Sim(d, variant), metadata |-> d.metadata]

\* QdrantVectorDB.search: threshold is <<>> for None, <<t>> otherwise
Search(coll, limit, threshold, variant) ==
    LET kept == IF threshold = <<>> THEN coll
                ELSE {d \in coll : Sim(d, variant) >= threshold[1]}
        r    == Ranked(kept, limit, variant)
    IN  [i \in 1..Len(r) |-> FormatResult(r[i], variant)]

\* EmbeddingService.encode of one string: the string is wrapped in a list, so
\* the array returned has two dimensions and one row
Encode(text) == [ndim |-> 2, rows |-> 1, text |-> text]

\* ------------------------------------------------------- context assembler
UnknownSource == <<"U", "n", "k", "n", "o", "w", "n", " ", "s", "o", "u", "r", "c", "e">>

\* f"[Source: {source} (Relevance: {score:.2f})]\n{text}"
FormatChunk(doc) ==
    <<"[", "S", "o", "u", "r", "c", "e", ":", " ">>
    \o Get(doc.metadata, "filename", UnknownSource)
    \o <<" ", "(", "R", "e", "l", "e", "v", "a", "n", "c", "e", ":", " ">>
    \o Format2f(doc.score)
    \o <<")", "]", "\n">>
    \o doc.text

RECURSIVE ContextParts(_, _, _, _, _)
\* the loop of _prepare_context from result i on
ContextParts(docs, i, context_parts, current_length, max_length) ==
    IF i > Len(docs) THEN context_parts
    ELSE LET formatted_chunk == FormatChunk(docs[i])
             remaining_space == max_length - current_length - TruncationBuffer
         IN  IF current_length + Len(formatted_chunk) > max_length
             THEN IF context_parts = <<>> /\ remaining_space > MinRemainingSpace
                  THEN <<Prefix(formatted_chunk, remaining_space) \o Ellipsis>>
                  ELSE context_parts
             ELSE ContextParts(docs, i + 1, Append(context_parts, formatted_chunk),
                               current_length + Len(formatted_chunk) + 2, max_length)

\* _prepare_context without its length check: every result is kept
PrepareContextUnbounded(retrieved_docs, max_length) ==
    Join([i \in 1..Len(retrieved_docs) |-> FormatChunk(retrieved_docs[i])],
         <<"\n", "\n">>)

\* RAGPipeline._prepare_context
PrepareContext(retrieved_docs, max_length) ==
    IF retrieved_docs = <<>> THEN <<>>
    ELSE Join(ContextParts(retrieved_docs, 1, <<>>, 0, max_length), <<"\n", "\n">>)

\* the text preview of one source
Preview(text) ==
    IF Len(text) > PreviewLength THEN Prefix(text, PreviewLength) \o Ellipsis ELSE text

\* the "sources" list built from retrieved_docs
Sources(retrieved_docs) ==
    [i \in 1..Len(retrieved_docs) |->
        [text     |-> Preview(retrieved_docs[i].text),
         score    |-> retrieved_docs[i].score,
         metadata |-> retrieved_docs[i].metadata]]

\* ------------------------------------------------------ generation gateway
SystemPrompt == <<"You are a helpful financial literacy assistant.">>

\* LlamaLLMService._format_prompt; context is <<>> for None, <<c>> otherwise
FormatPrompt(query, context) ==
    IF context # <<>> /\ context[1] # <<>>
    THEN <<"<|begin_of_text|><|start_header_id|>system<|end_header_id|>">>
         \o SystemPrompt
         \o <<"<|eot_id|><|start_header_id|>user<|end_header_id|>">>
         \o <<"Context from financial documents:">> \o context[1]
         \o <<"Question: ">> \o query
         \o <<"<|eot_id|><|start_header_id|>assistant<|end_header_id|>">>
    ELSE <<"<|begin_of_text|><|start_header_id|>system<|end_header_id|>">>
         \o SystemPrompt
         \o <<"<|eot_id|><|start_header_id|>user<|end_header_id|>">>
         \o query
         \o <<"<|eot_id|><|start_header_id|>assistant<|end_header_id|>">>

RECURSIVE PromptParts(_)
\* the per-message parts of the prompt LlamaLLMService.chat builds
PromptParts(msgs) ==
    IF msgs = <<>> THEN <<>>
    ELSE <<"<|start_header_id|>", msgs[1].role, "<|end_header_id|>">>
         \o msgs[1].content \o <<"<|eot_id|>">> \o PromptParts(Tail(msgs))

\* the prompt LlamaLLMService.chat hands to the model
ChatPrompt(msgs) ==
    <<"<|begin_of_text|>">> \o PromptParts(msgs)
    \o <<"<|start_header_id|>assistant<|end_header_id|>">>

\* what LlamaLLMService.generate_response returns when generation raises
LlamaApology ==
    <<"I apologize, but I encountered an error while generating a response. Please try again.">>

\* LlamaLLMService.generate_response: the text of the model, or the apology of
\* its own except block when the model raises
GenerateResponse(ok) == IF ok THEN ModelAnswer ELSE LlamaApology

\* characters of context GeminiLLMService._build_prompt keeps
GeminiContextLimit == 10000
\* characters of str(ve) GeminiLLMService.generate_response quotes
GeminiErrorLimit == 100

\* GeminiLLMService._build_prompt
BuildPrompt(query, ctx) ==
    IF ctx # <<>>
    THEN <<"You are a helpful financial advisor. Use the following information.">>
         \o <<"Context:">>
         \o (IF Len(ctx) > GeminiContextLimit
             THEN Prefix(ctx, GeminiContextLimit) \o Ellipsis ELSE ctx)
         \o <<"Question: ">> \o query \o <<"Answer:">>
    ELSE <<"You are a helpful financial advisor. Answer the following question.">>
         \o <<"Question: ">> \o query \o <<"Answer:">>

GeminiBlocked ==
    <<"I apologize, but I couldn't generate a response for this query.">>
GeminiEmpty ==
    <<"I couldn't generate a response. Please try rephrasing your question.">>

\* what the Gemini API does with a prompt
GeminiOutcomes == {"text", "blocked", "value_error", "empty", "error"}

\* GeminiLLMService.generate_response under each outcome of the API; e is
\* str() of the exception the outcome raises
GeminiGenerateResponse(api, e) ==
    CASE api = "text"        -> ModelAnswer
      [] api = "blocked"     -> GeminiBlocked
      [] api = "value_error" ->
             <<"I encountered an issue generating a response. Error: ">>
             \o Prefix(e, GeminiErrorLimit)
             \o <<". Please try again with a different question.">>
      [] api = "empty"       -> GeminiEmpty
      [] OTHER               -> <<"I'm experiencing technical difficulties: ">> \o e

\* ------------------------------------------------------------ orchestrator
QueryApology ==
    <<"I apologize, but I encountered an error while processing your question. Please try again.">>
ChatApology ==
    <<"I apologize, but I encountered an error. Please try rephrasing your question.">>
NoQuestionAnswer ==
    <<"I didn't receive a question. Please ask me something about financial literacy.">>
ServiceApologyPrefix == <<"I apologize, but I encountered an error: ">>

\* parameters RAGPipeline.query declares
QueryParams == {"question", "include_context", "max_context_length", "temperature"}
\* parameters RAGPipeline.chat declares
ChatParams == {"messages", "include_context", "temperature"}
\* keywords ChatbotService.chat_query passes to pipeline.query
ChatQueryKeywords == {"question", "top_k", "score_threshold", "include_context"}
\* keywords ChatbotService.chat_with_history passes to pipeline.chat
ChatHistoryKeywords == {"messages", "top_k", "score_threshold", "include_context"}

\* a result dict: `keys` are the keys present, the other fields their values
NoResult ==
    [keys |-> {}, answer |-> <<>>, sources |-> <<>>, context_used |-> FALSE,
     num_sources |-> 0, error |-> <<>>, success |-> FALSE]

\* context_used computed as `context is not None` alone
QueryResultContextNotNone(response, retrieved_docs, ctx) ==
    [keys |-> {"question", "answer", "sources", "context_used", "num_sources"},
     answer |-> response, sources |-> Sources(retrieved_docs),
     context_used |-> TRUE, num_sources |-> Len(retrieved_docs),
     error |-> <<>>, success |-> FALSE]

\* the dict RAGPipeline.query returns from its try block
QueryResult(response, retrieved_docs, ctx) ==
    [keys |-> {"question", "answer", "sources", "context_used", "num_sources"},
     answer |-> response, sources |-> Sources(retrieved_docs),
     context_used |-> Len(ctx) > 0, num_sources |-> Len(retrieved_docs),
     error |-> <<>>, success |-> FALSE]

\* the dict RAGPipeline.query returns from its except block
QueryFailure(e) ==
    [keys |-> {"question", "answer", "sources", "context_used", "num_sources", "error"},
     answer |-> QueryApology, sources |-> <<>>, context_used |-> FALSE,
     num_sources |-> 0, error |-> e, success |-> FALSE]

\* the dict RAGPipeline.chat returns when there is no user message
NoQuestionResult ==
    [keys |-> {"answer", "sources", "context_used"},
     answer |-> NoQuestionAnswer, sources |-> <<>>, context_used |-> FALSE,
     num_sources |-> 0, error |-> <<>>, success |-> FALSE]

\* the dict RAGPipeline.chat returns from its try block
ChatResult(response, retrieved_docs, ctx) ==
    [keys |-> {"answer", "sources", "context_used", "num_sources"},
     answer |-> response, sources |-> Sources(retrieved_docs),
     context_used |-> Len(ctx) > 0, num_sources |-> Len(retrieved_docs),
     error |-> <<>>, success |-> FALSE]

\* the dict RAGPipeline.chat returns from its except block
ChatFailure(e) ==
    [keys |-> {"answer", "sources", "context_used", "error"},
     answer |-> ChatApology, sources |-> <<>>, context_used |-> FALSE,
     num_sources |-> 0, error |-> e, success |-> FALSE]

\* the dict ChatbotService returns around a pipeline result
ServiceResult(r) ==
    [keys |-> {"success", "answer", "sources", "context_used"},
     answer |-> r.answer,
     sources |-> IF "sources" \in r.keys THEN r.sources ELSE <<>>,
     context_used |-> IF "context_used" \in r.keys THEN r.context_used ELSE FALSE,
     num_sources |-> 0, error |-> <<>>, success |-> TRUE]

\* the dict ChatbotService returns from its except block
ServiceFailure(e) ==
    [keys |-> {"success", "answer", "sources", "context_used", "error"},
     answer |-> ServiceApologyPrefix \o e, sources |-> <<>>, context_used |-> FALSE,
     num_sources |-> 0, error |-> e, success |-> FALSE]

\* ------------------------------------------------------------------- state
VARIABLES
    pc,                  \* position of the request being served
    op,                  \* operation being served
    caller,              \* ChatbotService method around the pipeline call, or "none"
    question,            \* argument of query
    include_context,     \* argument of query and chat
    max_context_length,  \* argument of query
    messages,            \* argument of chat
    req_top_k,           \* top_k given to ChatbotService, <<>> for None
    req_score_threshold, \* score_threshold given to ChatbotService, <<>> for None
    topic,               \* argument of the content extractor
    top_k,               \* self.top_k of the pipeline
    score_threshold,     \* self.score_threshold of the pipeline
    collection,          \* records stored in the vector index
    latest_question,     \* local of chat
    query_embedding,     \* local of query and chat
    retrieved_docs,      \* local of query and chat
    context,             \* local of query and chat
    enhanced_messages,   \* local of chat
    strategy,            \* search strategy the content extractor is at
    all_chunks,          \* results the content extractor has gathered
    chunk_counts,        \* number of results of each strategy
    extraction,          \* dict _extract_comprehensive_content returns
    calls,               \* calls made to the external capabilities, in order
    outcome,             \* "none", "returned" or "raised"
    failed,              \* capability that raised while serving the request, or "none"
    result,              \* dict returned to the caller
    exc                  \* str(e) of the exception that left the operation

\* state of the library classes when they are called on their own
VARIABLES
    chunker,             \* class whose chunk_text is called
    text_in,             \* argument text of chunk_text
    chunk_size,          \* argument chunk_size of chunk_text
    overlap,             \* argument overlap of chunk_text
    pages_content,       \* argument pages_content of chunk_text, <<>> for None
    chunk_result,        \* list chunk_text returns
    cache,               \* EmbeddingCache.cache, a dict held as a function
    access_order,        \* EmbeddingCache.access_order
    max_size,            \* EmbeddingCache.max_size
    recency,             \* keys of the cache, least recently used first
    cache_op,            \* the last call made to the cache and what it did
    threads,             \* per thread using the cache: its statement and locals
    written,             \* per key, the embedding of the last cache[text] = embedding
    client,              \* module the QdrantVectorDB class comes from
    collection_size,     \* vector size of the named collection, <<>> if absent
    vector_size,         \* self.vector_size of the client
    embedding_dim,       \* dimension of the embedding service
    texts,               \* argument of add_documents
    embeddings,          \* argument of add_documents
    metadatas,           \* argument of add_documents
    ids,                 \* argument of add_documents, <<>> for None
    upserted,            \* point lists handed to client.upsert, in order
    ingester,            \* entry point of the ingestion run
    clear_existing,      \* argument clear_existing of the run
    documents,           \* per parsed document, the number of its chunks
    doc_index,           \* document the run is at
    summary              \* dict the ingestion run returns

chunkVars == <<chunker, text_in, chunk_size, overlap, pages_content, chunk_result>>
cacheVars == <<cache, access_order, max_size, recency, cache_op, threads,
               written>>
indexVars == <<client, collection_size, vector_size, embedding_dim, texts,
               embeddings, metadatas, ids, upserted,
              ingester, clear_existing, documents, doc_index, summary>>
libraryVars == <<chunkVars, cacheVars, indexVars>>

requestVars == <<question, include_context, max_context_length, messages,
                 req_top_k, req_score_threshold, topic>>
configVars == <<top_k, score_threshold, collection>>
localVars == <<latest_question, query_embedding, retrieved_docs, context,
               enhanced_messages>>
extractVars == <<strategy, all_chunks, chunk_counts, extraction>>
returnVars == <<outcome, result, exc>>
vars == <<pc, op, caller, requestVars, configVars, localVars, extractVars,
          calls, failed, returnVars, libraryVars>>

NoEmbedding == [ndim |-> 0, rows |-> 0, text |-> <<>>]
NoExtraction == [combined_context |-> <<>>, total_sources |-> 0, chunk_counts |-> <<>>]

EmbedCall(text) ==
    [svc |-> "embed", text |-> text, limit |-> 0, threshold |-> <<>>, ndim |-> 0]
SearchCall(embedding, limit, threshold) ==
    [svc |-> "search", text |-> embedding.text, limit |-> limit,
     threshold |-> threshold, ndim |-> embedding.ndim]
GenerateCall(prompt) ==
    [svc |-> "generate", text |-> prompt, limit |-> 0, threshold |-> <<>>, ndim |-> 0]

\* no chunk_text call is in progress
NoChunker ==
    /\ chunker = "none"
    /\ text_in = <<>>
    /\ chunk_size = 0
    /\ overlap = 0
    /\ pages_content = <<>>
    /\ chunk_result = <<>>

\* no EmbeddingCache has been constructed
NoCache ==
    /\ cache = <<>>
    /\ access_order = <<>>
    /\ max_size = 0
    /\ recency = <<>>
    /\ cache_op = [name |-> "none"]
    /\ threads = <<>>
    /\ written = <<>>

\* no ingestion run has returned
NoSummary == [status |-> "none"]

\* no vector-index client is being constructed or written through, no
\* ingestion is running
NoIndex ==
    /\ client = "none"
    /\ collection_size = <<>>
    /\ vector_size = 0
    /\ embedding_dim = 0
    /\ texts = <<>>
    /\ embeddings = <<>>
    /\ metadatas = <<>>
    /\ ids = <<>>
    /\ upserted = <<>>
    /\ ingester = "none"
    /\ clear_existing = FALSE
    /\ documents = <<>>
    /\ doc_index = 0
    /\ summary = NoSummary

Init ==
    /\ pc = "idle"
    /\ op = "none"
    /\ caller = "none"
    /\ question = <<>>
    /\ include_context = FALSE
    /\ max_context_length = DefaultMaxContextLength
    /\ messages = <<>>
    /\ req_top_k = <<>>
    /\ req_score_threshold = <<>>
    /\ topic = <<>>
    /\ top_k \in TopKs
    /\ score_threshold \in ScoreThresholds
    /\ collection \in SUBSET DocUniverse
    /\ latest_question = <<>>
    /\ query_embedding = NoEmbedding
    /\ retrieved_docs = <<>>
    /\ context = <<>>
    /\ enhanced_messages = <<>>
    /\ strategy = 0
    /\ all_chunks = <<>>
    /\ chunk_counts = <<>>
    /\ extraction = NoExtraction
    /\ calls = <<>>
    /\ failed = "none"
    /\ outcome = "none"
    /\ result = NoResult
    /\ exc = <<>>
    /\ NoChunker
    /\ NoCache
    /\ NoIndex

\* an operation that starts again instead of returning r
ReturnsRetrying(r) ==
    /\ pc' = "q_embed"
    /\ UNCHANGED returnVars

\* the operation returns dict r to its caller; ChatbotService wraps it
Returns(r) ==
    /\ pc' = "done"
    /\ outcome' = "returned"
    /\ result' = IF caller = "none" THEN r ELSE ServiceResult(r)
    /\ exc' = <<>>

\* exception e leaves the operation; the except block of ChatbotService, when
\* the call came through it, turns it into a dict
Raises(e) ==
    /\ pc' = "done"
    /\ outcome' = IF caller = "none" THEN "raised" ELSE "returned"
    /\ result' = IF caller = "none" THEN NoResult ELSE ServiceFailure(e)
    /\ exc' = IF caller = "none" THEN e ELSE <<>>

\* ------------------------------------------------------- RAGPipeline.query
\* query without its except block: the exception goes on to the caller
QueryExceptReraises(e) == Raises(e)

\* the except block of query
QueryExcept(e) == Returns(QueryFailure(e))

\* a caller invokes query(question, include_context, max_context_length)
Query ==
    /\ pc = "idle"
    /\ pc' = "q_embed"
    /\ op' = "query"
    /\ caller' = "none"
    /\ question' \in Questions
    /\ include_context' \in IncludeContexts
    /\ max_context_length' \in MaxContextLengths
    /\ UNCHANGED <<messages, req_top_k, req_score_threshold, topic, configVars,
                   localVars, extractVars, calls, failed, returnVars>>
    /\ UNCHANGED libraryVars

\* Step 1: query_embedding = self.embedding_service.encode(question)
QueryEmbed ==
    /\ pc = "q_embed"
    /\ calls' = Append(calls, EmbedCall(question))
    /\ \/ /\ query_embedding' = Encode(question)
          /\ pc' = IF include_context THEN "q_search" ELSE "q_context"
          /\ UNCHANGED <<failed, returnVars>>
       \/ /\ failed' = "embed"
          /\ QueryExcept(EmbedError)
          /\ UNCHANGED query_embedding
    /\ UNCHANGED <<op, caller, requestVars, configVars, latest_question,
                   retrieved_docs, context, enhanced_messages, extractVars>>
    /\ UNCHANGED libraryVars

\* Step 2: retrieved_docs = self.vector_db.search(...), under include_context
QuerySearch ==
    /\ pc = "q_search"
    /\ calls' = Append(calls, SearchCall(query_embedding, top_k, <<score_threshold>>))
    /\ \/ /\ retrieved_docs' = Search(collection, top_k, <<score_threshold>>, 1)
          /\ pc' = "q_context"
          /\ UNCHANGED <<failed, returnVars>>
       \/ /\ failed' = "search"
          /\ QueryExcept(SearchError)
          /\ UNCHANGED retrieved_docs
    /\ UNCHANGED <<op, caller, requestVars, configVars, latest_question,
                   query_embedding, context, enhanced_messages, extractVars>>
    /\ UNCHANGED libraryVars

\* Step 3: context = self._prepare_context(retrieved_docs, max_context_length)
QueryContext ==
    /\ pc = "q_context"
    /\ context' = PrepareContext(retrieved_docs, max_context_length)
    /\ pc' = "q_generate"
    /\ UNCHANGED <<op, caller, requestVars, configVars, latest_question,
                   query_embedding, retrieved_docs, enhanced_messages,
                   extractVars, calls, failed, returnVars>>
    /\ UNCHANGED libraryVars

\* Steps 4 and 5: generate_response, which returns its own apology when the
\* model raises, then the result dict
QueryGenerate ==
    /\ pc = "q_generate"
    /\ calls' = Append(calls, GenerateCall(
                    FormatPrompt(question, IF include_context THEN <<context>> ELSE <<>>)))
    /\ \/ /\ failed' = "none"
          /\ Returns(QueryResult(GenerateResponse(TRUE), retrieved_docs, context))
       \/ /\ failed' = "generate"
          /\ Returns(QueryResult(GenerateResponse(FALSE), retrieved_docs, context))
    /\ UNCHANGED <<op, caller, requestVars, configVars, localVars, extractVars>>
    /\ UNCHANGED libraryVars

\* the caller takes the outcome; the pipeline keeps nothing of the request
Reset ==
    /\ pc = "done"
    /\ pc' = "idle"
    /\ op' = "none"
    /\ caller' = "none"
    /\ question' = <<>>
    /\ include_context' = FALSE
    /\ max_context_length' = DefaultMaxContextLength
    /\ messages' = <<>>
    /\ req_top_k' = <<>>
    /\ req_score_threshold' = <<>>
    /\ topic' = <<>>
    /\ latest_question' = <<>>
    /\ query_embedding' = NoEmbedding
    /\ retrieved_docs' = <<>>
    /\ context' = <<>>
    /\ enhanced_messages' = <<>>
    /\ strategy' = 0
    /\ all_chunks' = <<>>
    /\ chunk_counts' = <<>>
    /\ extraction' = NoExtraction
    /\ calls' = <<>>
    /\ failed' = "none"
    /\ outcome' = "none"
    /\ result' = NoResult
    /\ exc' = <<>>
    /\ UNCHANGED configVars
    /\ UNCHANGED libraryVars

\* -------------------------------------------------------- RAGPipeline.chat
\* the filter on the role left out
UserMessagesUnfiltered(msgs) == msgs

\* user_messages = [msg for msg in messages if msg.get("role") == "user"]
UserMessages(msgs) == SelectSeq(msgs, LAMBDA m : m.role = "user")

\* the message that replaces enhanced_messages[-1]
EnhancedMessage(ctx, q) ==
    [role |-> "user",
     content |-> <<"Context from financial documents:">> \o ctx
                 \o <<"Question: ">> \o q]

\* only the latest question, with its context, handed to the generation service
EnhanceLatestOnly(msgs, ctx, ic, q) ==
    IF ctx # <<>> /\ ic
    THEN <<EnhancedMessage(ctx, q)>>
    ELSE <<[role |-> "user", content |-> q]>>

\* the message list chat hands to the generation service
Enhance(msgs, ctx, ic, q) ==
    IF ctx # <<>> /\ ic
    THEN [msgs EXCEPT ![Len(msgs)] = EnhancedMessage(ctx, q)]
    ELSE msgs

\* an exception raised by the retrieval of chat, which no try block encloses
ChatRetrievalRaises(e) == Raises(e)

\* the except block around the generation call of chat
ChatExcept(e) == Returns(ChatFailure(e))

\* a caller invokes chat(messages, include_context)
Chat ==
    /\ pc = "idle"
    /\ pc' = "c_start"
    /\ op' = "chat"
    /\ caller' = "none"
    /\ messages' \in Conversations
    /\ include_context' \in IncludeContexts
    /\ UNCHANGED <<question, max_context_length, req_top_k, req_score_threshold,
                   topic, configVars, localVars, extractVars, calls, failed,
                   returnVars>>
    /\ UNCHANGED libraryVars

\* the latest user message is extracted, or the call returns at once
ChatStart ==
    /\ pc = "c_start"
    /\ LET user_messages == UserMessages(messages)
       IN  IF user_messages = <<>>
           THEN /\ Returns(NoQuestionResult)
                /\ UNCHANGED latest_question
           ELSE /\ latest_question' = user_messages[Len(user_messages)].content
                /\ pc' = IF include_context /\ latest_question' # <<>>
                         THEN "c_embed" ELSE "c_generate"
                /\ UNCHANGED returnVars
    /\ UNCHANGED <<op, caller, requestVars, configVars, query_embedding,
                   retrieved_docs, context, enhanced_messages, extractVars, calls,
                   failed>>
    /\ UNCHANGED libraryVars

\* query_embedding = self.embedding_service.encode(latest_question)
ChatEmbed ==
    /\ pc = "c_embed"
    /\ calls' = Append(calls, EmbedCall(latest_question))
    /\ \/ /\ query_embedding' = Encode(latest_question)
          /\ pc' = "c_search"
          /\ UNCHANGED <<failed, returnVars>>
       \/ /\ failed' = "embed"
          /\ ChatRetrievalRaises(EmbedError)
          /\ UNCHANGED query_embedding
    /\ UNCHANGED <<op, caller, requestVars, configVars, latest_question,
                   retrieved_docs, context, enhanced_messages, extractVars>>
    /\ UNCHANGED libraryVars

\* Python binds the keywords of a call to the parameters the callee declares
Binds(keywords, params) == keywords \subseteq params

\* parameters of _prepare_context and the keyword chat calls it with:
\* self._prepare_context(retrieved_docs, max_context_length=1500)
PrepareContextParams == {"retrieved_docs", "max_length"}
ChatContextKeywords == {"max_context_length"}

\* retrieved_docs = self.vector_db.search(...), then the call of
\* _prepare_context, which raises TypeError when its keyword does not bind
ChatSearch ==
    /\ pc = "c_search"
    /\ calls' = Append(calls, SearchCall(query_embedding, top_k, <<score_threshold>>))
    /\ \/ /\ retrieved_docs' = Search(collection, top_k, <<score_threshold>>, 1)
          /\ IF Binds(ChatContextKeywords, PrepareContextParams)
             THEN /\ context' = PrepareContext(retrieved_docs', ChatMaxContextLength)
                  /\ pc' = "c_generate"
                  /\ UNCHANGED <<failed, returnVars>>
             ELSE /\ ChatRetrievalRaises(KeywordError)
                  /\ UNCHANGED <<failed, context>>
       \/ /\ failed' = "search"
          /\ ChatRetrievalRaises(SearchError)
          /\ UNCHANGED <<retrieved_docs, context>>
    /\ UNCHANGED <<op, caller, requestVars, configVars, latest_question,
                   query_embedding, enhanced_messages, extractVars>>
    /\ UNCHANGED libraryVars

\* a chat that records the reply in the list it was given
CallerMessagesWithReply(msgs) ==
    Append(msgs, [role |-> "assistant", content |-> ModelAnswer])

\* the caller's list after chat: enhanced_messages is a copy when an element
\* is replaced and the list itself otherwise, and nothing is written to it
CallerMessages(msgs) == msgs

\* the last message is enhanced with the context and the conversation is
\* handed to LlamaLLMService.chat, inside the only try block of chat
ChatGenerate ==
    /\ pc = "c_generate"
    /\ enhanced_messages' = Enhance(messages, context, include_context, latest_question)
    /\ messages' = CallerMessages(messages)
    /\ calls' = Append(calls, GenerateCall(ChatPrompt(enhanced_messages')))
    /\ \/ /\ failed' = "none"
          /\ Returns(ChatResult(ModelAnswer, retrieved_docs, context))
       \/ /\ failed' = "generate"
          /\ ChatExcept(GenerateError)
    /\ UNCHANGED <<op, caller, question, include_context, max_context_length,
                   req_top_k, req_score_threshold, topic, configVars,
                   latest_question, query_embedding, retrieved_docs, context,
                   extractVars>>
    /\ UNCHANGED libraryVars

\* ----------------------------------------------------------- ChatbotService
\* ChatbotService.chat_query(query, include_context, top_k, score_threshold)
ChatQuery ==
    /\ pc = "idle"
    /\ op' = "chat_query"
    /\ question' \in Questions
    /\ include_context' \in IncludeContexts
    /\ req_top_k' \in OptTopKs
    /\ req_score_threshold' \in OptScoreThresholds
    /\ IF Binds(ChatQueryKeywords, QueryParams)
       THEN /\ pc' = "q_embed"
            /\ caller' = "chat_query"
            /\ UNCHANGED returnVars
       ELSE /\ pc' = "done"
            /\ caller' = "none"
            /\ outcome' = "returned"
            /\ result' = ServiceFailure(KeywordError)
            /\ exc' = <<>>
    /\ UNCHANGED <<max_context_length, messages, topic, configVars, localVars,
                   extractVars, calls, failed>>
    /\ UNCHANGED libraryVars

\* ChatbotService.chat_with_history(messages, include_context, top_k, score_threshold)
ChatWithHistory ==
    /\ pc = "idle"
    /\ op' = "chat_with_history"
    /\ messages' \in Conversations
    /\ include_context' \in IncludeContexts
    /\ req_top_k' \in OptTopKs
    /\ req_score_threshold' \in OptScoreThresholds
    /\ IF Binds(ChatHistoryKeywords, ChatParams)
       THEN /\ pc' = "c_start"
            /\ caller' = "chat_with_history"
            /\ UNCHANGED returnVars
       ELSE /\ pc' = "done"
            /\ caller' = "none"
            /\ outcome' = "returned"
            /\ result' = ServiceFailure(KeywordError)
            /\ exc' = <<>>
    /\ UNCHANGED <<question, max_context_length, topic, configVars, localVars,
                   extractVars, calls, failed>>
    /\ UNCHANGED libraryVars

\* ---------------------- ContentExtractorAgent._extract_comprehensive_content
\* the query text of each strategy
StrategyQuery(t, k) ==
    IF k = 1 THEN t
    ELSE IF k = 2 THEN t \o <<" technical specifications parameters standards">>
    ELSE IF k = 3 THEN t \o <<" applications case studies real world examples industry">>
    ELSE IF k = 4 THEN t \o <<" safety procedures troubleshooting maintenance issues">>
    ELSE t \o <<" best practices industry standards guidelines protocols">>

\* the limit of each strategy's search
StrategyLimitOf(k) == IF k = 1 THEN DirectLimit ELSE StrategyLimit

\* self.model.encode([text])[0]: the first row of the array
EncodeFirst(text) == [ndim |-> 1, rows |-> 1, text |-> text]

\* all_chunks = direct_chunks + technical_chunks + ... of the results so far
Combine(chunks, found) == chunks \o found

\* the dict _extract_comprehensive_content returns
Extraction(chunks, counts) ==
    [combined_context |-> Join([i \in 1..Len(chunks) |-> chunks[i].text], <<"\n">>),
     total_sources |-> Len(chunks),
     chunk_counts |-> counts]

\* a caller invokes the extraction for a topic
Extract ==
    /\ pc = "idle"
    /\ pc' = "x_search"
    /\ op' = "extract"
    /\ caller' = "none"
    /\ topic' \in Topics
    /\ strategy' = 1
    /\ UNCHANGED <<question, include_context, max_context_length, messages,
                   req_top_k, req_score_threshold, configVars, localVars,
                   all_chunks, chunk_counts, extraction, calls, failed, returnVars>>
    /\ UNCHANGED libraryVars

\* one strategy: its query is embedded and searched without a threshold; an
\* exception of either call leaves the function
ExtractStrategy ==
    /\ pc = "x_search"
    /\ LET q         == StrategyQuery(topic, strategy)
           embedding == EncodeFirst(q)
           limit     == StrategyLimitOf(strategy)
           found     == Search(collection, limit, <<>>, strategy)
       IN  \/ /\ calls' = Append(Append(calls, EmbedCall(q)),
                                 SearchCall(embedding, limit, <<>>))
              /\ all_chunks' = Combine(all_chunks, found)
              /\ chunk_counts' = Append(chunk_counts, Len(found))
              /\ strategy' = strategy + 1
              /\ pc' = IF strategy = NumStrategies THEN "x_combine" ELSE "x_search"
              /\ UNCHANGED <<failed, returnVars>>
           \/ /\ calls' = Append(calls, EmbedCall(q))
              /\ failed' = "embed"
              /\ Raises(EmbedError)
              /\ UNCHANGED <<all_chunks, chunk_counts, strategy>>
           \/ /\ calls' = Append(Append(calls, EmbedCall(q)),
                                 SearchCall(embedding, limit, <<>>))
              /\ failed' = "search"
              /\ Raises(SearchError)
              /\ UNCHANGED <<all_chunks, chunk_counts, strategy>>
    /\ UNCHANGED <<op, caller, requestVars, configVars, localVars, extraction>>
    /\ UNCHANGED libraryVars

\* the results are combined and returned
ExtractCombine ==
    /\ pc = "x_combine"
    /\ pc' = "done"
    /\ extraction' = Extraction(all_chunks, chunk_counts)
    /\ outcome' = "returned"
    /\ UNCHANGED <<op, caller, requestVars, configVars, localVars, strategy,
                   all_chunks, chunk_counts, calls, failed, result, exc>>
    /\ UNCHANGED libraryVars

\* ------------------------------------------------------------- run_chatbot
\* limit of the search of run_chatbot
RunChatbotLimit == 5
\* score_threshold of the search of run_chatbot (0.3)
RunChatbotThreshold == 30

\* what run_chatbot prints for an answer
PrintedAnswer(answer) ==
    [keys |-> {"answer"}, answer |-> <<"Bot: ">> \o answer, sources |-> <<>>,
     context_used |-> FALSE, num_sources |-> 0, error |-> <<>>, success |-> FALSE]

\* what the except block of run_chatbot prints
PrintedError(e) ==
    [keys |-> {"answer"},
     answer |-> <<"Error: ">> \o e
                \o <<"Bot: I'm sorry, I encountered an error while processing your question.">>,
     sources |-> <<>>, context_used |-> FALSE, num_sources |-> 0, error |-> <<>>,
     success |-> FALSE]

\* the user types a question at the prompt of run_chatbot
Ask ==
    /\ pc = "idle"
    /\ pc' = "r_embed"
    /\ op' = "run_chatbot"
    /\ caller' = "none"
    /\ question' \in Questions
    /\ UNCHANGED <<include_context, max_context_length, messages, req_top_k,
                   req_score_threshold, topic, configVars, localVars,
                   extractVars, calls, failed, returnVars>>
    /\ UNCHANGED libraryVars

\* query_embedding = embedding_service.encode([query])[0]
RunEmbed ==
    /\ pc = "r_embed"
    /\ calls' = Append(calls, EmbedCall(question))
    /\ \/ /\ query_embedding' = EncodeFirst(question)
          /\ pc' = "r_search"
          /\ UNCHANGED <<failed, returnVars>>
       \/ /\ failed' = "embed"
          /\ Returns(PrintedError(EmbedError))
          /\ UNCHANGED query_embedding
    /\ UNCHANGED <<op, caller, requestVars, configVars, latest_question,
                   retrieved_docs, context, enhanced_messages, extractVars>>
    /\ UNCHANGED libraryVars

\* results = vector_client.search(...) and the context joined from them
RunSearch ==
    /\ pc = "r_search"
    /\ calls' = Append(calls, SearchCall(query_embedding, RunChatbotLimit,
                                         <<RunChatbotThreshold>>))
    /\ \/ /\ retrieved_docs' = Search(collection, RunChatbotLimit,
                                       <<RunChatbotThreshold>>, 1)
          /\ context' = Join([i \in 1..Len(retrieved_docs') |-> retrieved_docs'[i].text],
                             <<"\n">>)
          /\ pc' = "r_generate"
          /\ UNCHANGED <<failed, returnVars>>
       \/ /\ failed' = "search"
          /\ Returns(PrintedError(SearchError))
          /\ UNCHANGED <<retrieved_docs, context>>
    /\ UNCHANGED <<op, caller, requestVars, configVars, latest_question,
                   query_embedding, enhanced_messages, extractVars>>
    /\ UNCHANGED libraryVars

\* answer = gemini_service.generate_response(query, context=context_text)
RunGenerate ==
    /\ pc = "r_generate"
    /\ calls' = Append(calls, GenerateCall(BuildPrompt(question, context)))
    /\ \E api \in GeminiOutcomes :
           /\ failed' = IF api = "text" THEN "none" ELSE "generate"
           /\ Returns(PrintedAnswer(GeminiGenerateResponse(api, GenerateError)))
    /\ UNCHANGED <<op, caller, requestVars, configVars, localVars, extractVars>>
    /\ UNCHANGED libraryVars

\* ------------------------------------------------------------ specification
Next ==
    \/ Query
    \/ QueryEmbed
    \/ QuerySearch
    \/ QueryContext
    \/ QueryGenerate
    \/ Chat
    \/ ChatStart
    \/ ChatEmbed
    \/ ChatSearch
    \/ ChatGenerate
    \/ ChatQuery
    \/ ChatWithHistory
    \/ Extract
    \/ ExtractStrategy
    \/ ExtractCombine
    \/ Ask
    \/ RunEmbed
    \/ RunSearch
    \/ RunGenerate
    \/ Reset

Spec == Init /\ [][Next]_vars

\* ============================================================ library calls
\* The classes below are also called on their own.  Each gets a
\* specification whose initial states hold the arguments of one call and
\* whose actions make the call.

\* variables of the request pipeline no library call touches
servingVars == <<op, caller, question, include_context, messages, req_top_k,
                 req_score_threshold, topic, top_k, score_threshold,
                 latest_question, query_embedding, enhanced_messages,
                 extractVars, calls, failed, result>>

\* no request is being served by the pipeline
NoRequest ==
    /\ op = "none"
    /\ caller = "none"
    /\ question = <<>>
    /\ include_context = FALSE
    /\ messages = <<>>
    /\ req_top_k = <<>>
    /\ req_score_threshold = <<>>
    /\ topic = <<>>
    /\ top_k = 1
    /\ score_threshold = 0
    /\ latest_question = <<>>
    /\ query_embedding = NoEmbedding
    /\ enhanced_messages = <<>>
    /\ strategy = 0
    /\ all_chunks = <<>>
    /\ chunk_counts = <<>>
    /\ extraction = NoExtraction
    /\ calls = <<>>
    /\ failed = "none"
    /\ result = NoResult

\* ------------------------------------------- RAGPipeline._prepare_context
\* longest result list handed to _prepare_context
MaxResults == 2

\* a text of n characters
TextOfLength(n) == [i \in 1..n |-> "x"]

\* lengths of the result texts: short, about a hundred characters, long
ResultTextLengths == {6, 120, 300}

\* results as QdrantVectorDB.search formats them
Results ==
    {[id |-> n, text |-> TextOfLength(n), score |-> 85, metadata |-> md] :
        n \in ResultTextLengths, md \in {{}, {<<"filename", F1>>}}}

ResultLists == UNION {[1..n -> Results] : n \in 0..MaxResults}

\* values of max_length: none, too small for any result, at and just past
\* the point where a truncated result is kept, room for two results, default
MaxLengths == {0, 20, 150, 151, 200, DefaultMaxContextLength}

ContextInit ==
    /\ pc = "p_call"
    /\ retrieved_docs \in ResultLists
    /\ max_context_length \in MaxLengths
    /\ context = <<>>
    /\ collection = {}
    /\ outcome = "none"
    /\ exc = <<>>
    /\ NoRequest
    /\ NoChunker
    /\ NoCache
    /\ NoIndex

\* context = self._prepare_context(retrieved_docs, max_length)
PrepareContextCall ==
    /\ pc = "p_call"
    /\ context' = PrepareContext(retrieved_docs, max_context_length)
    /\ pc' = "p_done"
    /\ outcome' = "returned"
    /\ UNCHANGED <<servingVars, retrieved_docs, max_context_length, collection,
                   exc, libraryVars>>

ContextNext == PrepareContextCall

SpecContext == ContextInit /\ [][ContextNext]_vars

\* ------------------------- TextChunker.chunk_text, DocumentParser.chunk_text
\* longest text, largest chunk_size and largest overlap handed to chunk_text
MaxTextLength == 7
MaxChunkSize == 4
MaxOverlap == 5
MaxPages == 2

\* characters of the texts: one letter and the blank
TextChars == {"a", " "}
Texts == UNION {[1..n -> TextChars] : n \in 0..MaxTextLength}
ChunkSizes == 1..MaxChunkSize
Overlaps == 0..MaxOverlap
Chunkers == {"TextChunker", "DocumentParser"}

\* the texts of the pages of a document
PageContents == {<<>>, <<"a">>, <<"a", " ", "a">>}

\* pages_content as DocumentParser builds it: the pages numbered from 1 in
\* their order; the empty list stands for None as well
PagesContents ==
    {[k \in 1..Len(c) |-> [page_number |-> k, content |-> c[k]]] :
        c \in UNION {[1..n -> PageContents] : n \in 0..MaxPages}}

\* str(e) of the ValueError range raises for a zero step
RangeError == <<"range() arg 3 must not be zero">>

IsSpace(c) == c \in {" ", "\n", "\t"}

RECURSIVE SplitWords(_, _, _)
\* the words of s from character i on, `word` being the word read so far
SplitWords(s, i, word) ==
    LET ended == IF word = <<>> THEN <<>> ELSE <<word>>
    IN  IF i > Len(s) THEN ended
        ELSE IF IsSpace(s[i]) THEN ended \o SplitWords(s, i + 1, <<>>)
        ELSE SplitWords(s, i + 1, Append(word, s[i]))

\* text.split(): the maximal runs of characters that are not whitespace
Split(s) == SplitWords(s, 1, <<>>)

\* a range that steps one further than asked
RangeSkipping(stop, step) ==
    IF step > 0
    THEN [k \in 1..((stop + step) \div (step + 1)) |-> (k - 1) * (step + 1)]
    ELSE <<>>

\* list(range(0, stop, step)) for stop >= 0 and step # 0: empty when the
\* step is negative
Range(stop, step) ==
    IF step > 0
    THEN [k \in 1..((stop + step - 1) \div step) |-> (k - 1) * step]
    ELSE <<>>

\* min(a, b)
Min(a, b) == IF a < b THEN a ELSE b

\* words[i:j] for 0 <= i, words counted from 0
Slice(words, i, j) == SubSeq(words, i + 1, Min(j, Len(words)))

RECURSIVE PageMapping(_)
\* page_mapping: the page number of every word position of the pages laid end
\* to end; the keys run from 0, so position p is element p + 1
PageMapping(pages) ==
    IF pages = <<>> THEN <<>>
    ELSE [j \in 1..Len(Split(Head(pages).content)) |-> Head(pages).page_number]
         \o PageMapping(Tail(pages))

\* a page number taken from the last word of the chunk
PageNumberOfEnd(mapping, i, stop) ==
    IF mapping = <<>> THEN <<>>
    ELSE IF stop - 1 < Len(mapping) THEN <<mapping[stop]>>
    ELSE <<>>

\* page_number of the chunk of words i..stop-1: that of word i, else that of
\* the first word of the chunk that has one; <<>> for None
PageNumber(mapping, i, stop) ==
    IF mapping = <<>> THEN <<>>
    ELSE IF i < Len(mapping) THEN <<mapping[i + 1]>>
    ELSE LET mapped == {w \in i..(stop - 1) : w < Len(mapping)}
         IN  IF mapped = {} THEN <<>>
             ELSE <<mapping[(CHOOSE w \in mapped : \A v \in mapped : w <= v) + 1]>>

\* if page_number: neither None nor 0
Truthy(page_number) == page_number # <<>> /\ page_number[1] # 0

\* TextChunker.chunk_text, when range accepts the step; a chunk's page_number
\* is <<>> when the dict has no such key
ChunkText(text, size, lap, pages) ==
    IF text = <<>> THEN <<>>
    ELSE LET words   == Split(text)
             mapping == PageMapping(pages)
             starts  == Range(Len(words), size - lap)
         IN  [k \in 1..Len(starts) |->
                 LET i           == starts[k]
                     chunk_words == Slice(words, i, i + size)
                     page_number == PageNumber(mapping, i, Min(i + size, Len(words)))
                 IN  [text         |-> Join(chunk_words, <<" ">>),
                      chunk_id     |-> k - 1,
                      start_word   |-> i,
                      end_word     |-> Min(i + size, Len(words)),
                      chunk_size   |-> Len(chunk_words),
                      overlap_size |-> IF i > 0 THEN lap ELSE 0,
                      page_number  |-> IF Truthy(page_number) THEN page_number
                                       ELSE <<>>]]

\* DocumentParser.chunk_text, when range accepts the step
ParserChunkText(text, size, lap) ==
    IF text = <<>> THEN <<>>
    ELSE LET words  == Split(text)
             starts == Range(Len(words), size - lap)
         IN  [k \in 1..Len(starts) |->
                 LET i           == starts[k]
                     chunk_words == Slice(words, i, i + size)
                 IN  [text       |-> Join(chunk_words, <<" ">>),
                      chunk_id   |-> k - 1,
                      start_word |-> i,
                      end_word   |-> Min(i + size, Len(words))]]

\* range raises ValueError for a zero step; the empty text returns before
RangeRaises(text, size, lap) == text # <<>> /\ size - lap = 0

ChunkInit ==
    /\ pc = "k_call"
    /\ chunker \in Chunkers
    /\ text_in \in Texts
    /\ chunk_size \in ChunkSizes
    /\ overlap \in Overlaps
    /\ pages_content \in (IF chunker = "TextChunker" THEN PagesContents ELSE {<<>>})
    /\ chunk_result = <<>>
    /\ retrieved_docs = <<>>
    /\ max_context_length = DefaultMaxContextLength
    /\ context = <<>>
    /\ collection = {}
    /\ outcome = "none"
    /\ exc = <<>>
    /\ NoRequest
    /\ NoCache
    /\ NoIndex

\* what no chunk_text call changes
chunkFrame == <<servingVars, retrieved_docs, max_context_length, context,
                collection, chunker, text_in, chunk_size, overlap, pages_content,
                cacheVars,
                indexVars>>

\* chunks = TextChunker(...).chunk_text(text, chunk_size, overlap)
TextChunkerChunkText ==
    /\ pc = "k_call"
    /\ chunker = "TextChunker"
    /\ pc' = "k_done"
    /\ IF RangeRaises(text_in, chunk_size, overlap)
       THEN /\ outcome' = "raised"
            /\ exc' = RangeError
            /\ UNCHANGED chunk_result
       ELSE /\ outcome' = "returned"
            /\ chunk_result' = ChunkText(text_in, chunk_size, overlap, pages_content)
            /\ UNCHANGED exc
    /\ UNCHANGED chunkFrame

\* chunks = DocumentParser().chunk_text(text, chunk_size, overlap)
DocumentParserChunkText ==
    /\ pc = "k_call"
    /\ chunker = "DocumentParser"
    /\ pc' = "k_done"
    /\ IF RangeRaises(text_in, chunk_size, overlap)
       THEN /\ outcome' = "raised"
            /\ exc' = RangeError
            /\ UNCHANGED chunk_result
       ELSE /\ outcome' = "returned"
            /\ chunk_result' = ParserChunkText(text_in, chunk_size, overlap)
            /\ UNCHANGED exc
    /\ UNCHANGED chunkFrame

ChunkNext ==
    \/ TextChunkerChunkText
    \/ DocumentParserChunkText

SpecChunk == ChunkInit /\ [][ChunkNext]_vars

\* ------------------------------------ QdrantVectorDB, RAGPipeline.__init__
\* largest vector size and longest argument list of add_documents
MaxDim == 2
MaxBatch == 2

Dims == 1..MaxDim
Clients == {"vectordb", "vectorstore"}

\* str(e) of the exceptions
ServerError == <<"qdrant server error">>
LengthError == <<"texts, embeddings, and metadatas must have the same length">>

\* the arguments of add_documents, told apart by their position
TextsOf(n) == [i \in 1..n |-> <<"text", i>>]
EmbeddingsOf(n) == [i \in 1..n |-> <<i>>]
MetadatasOf(n) == [i \in 1..n |-> {<<"chunk_id", i>>}]
IdsOf(n) == [i \in 1..n |-> <<"id", i>>]

\* ids = [str(uuid.uuid4()) for _ in range(len(texts))]
GeneratedIds(n) == [i \in 1..n |-> <<"uuid", i>>]

\* the point built from one tuple of the zip: the text joins the metadata
Point(text, embedding, metadata, doc_id) ==
    [id      |-> doc_id,
     vector  |-> embedding,
     payload |-> {q \in metadata : q[1] # "text"} \cup {<<"text", text>>}]

\* a point stored before the call
StoredPoint == Point(<<"old">>, <<1>>, {}, <<"id", 1>>)

\* the ids add_documents works with
EffectiveIds(txts, given) == IF given = <<>> THEN GeneratedIds(Len(txts)) ELSE given[1]

\* the comparison add_documents makes of its arguments
LengthsDiffer(txts, embs, metas) == Len(txts) # Len(embs) \/ Len(txts) # Len(metas)

\* number of tuples zip(texts, embeddings, metadatas, ids) yields
ZipLength(txts, embs, metas, given) ==
    Min(Min(Len(txts), Len(embs)), Min(Len(metas), Len(EffectiveIds(txts, given))))

\* the points list of add_documents
Points(txts, embs, metas, given) ==
    [i \in 1..ZipLength(txts, embs, metas, given) |->
        Point(txts[i], embs[i], metas[i], EffectiveIds(txts, given)[i])]

\* client.upsert: a point replaces the stored point of the same id
Upsert(stored, pts) ==
    {q \in stored : \A i \in 1..Len(pts) : pts[i].id # q.id}
    \cup {pts[i] : i \in 1..Len(pts)}

\* vectordb _ensure_collection_exists: an existing collection is kept as it is
EnsureCollectionExists(existing, size) ==
    IF existing = <<>> THEN <<size>> ELSE existing

\* vectorstore _ensure_collection_exists: an existing collection of another
\* vector size is deleted and created again
StoreEnsureCollectionExists(existing, size) ==
    IF existing = <<>> THEN <<size>>
    ELSE IF existing[1] # size THEN <<size>> ELSE existing

\* _recreate_collection ran: the stored points are gone
Recreated(existing, size) == existing # <<>> /\ existing[1] # size

\* collection_info.get("vector_size", 0) of get_collection_info, which
\* returns {} when the server call raises
InfoSizes(existing) == IF existing = <<>> THEN {0} ELSE {0, existing[1]}

IndexInit ==
    /\ pc \in {"n_construct", "n_pipeline", "n_add"}
    /\ client \in Clients
    /\ pc = "n_pipeline" => client = "vectordb"
    /\ collection_size \in {<<>>} \cup {<<d>> : d \in Dims}
    /\ collection \in {{}, {StoredPoint}}
    /\ collection_size = <<>> => collection = {}
    /\ vector_size \in {0} \cup Dims
    /\ embedding_dim \in {0} \cup Dims
    \* the constructor gets vector_size; no embedding service is involved
    /\ pc = "n_construct" => vector_size # 0 /\ embedding_dim = 0
    \* __init__ gets an embedding service, and a client (vector_size # 0) that
    \* ensured its collection when it was constructed, or none
    /\ pc = "n_pipeline" => /\ embedding_dim # 0
                            /\ vector_size # 0 => collection_size # <<>>
    \* add_documents is called on a client constructed with the stored size
    /\ pc = "n_add" => /\ embedding_dim = 0
                       /\ collection_size = <<vector_size>>
    /\ \E n \in 0..MaxBatch : texts = TextsOf(IF pc = "n_add" THEN n ELSE 0)
    /\ \E n \in 0..MaxBatch : embeddings = EmbeddingsOf(IF pc = "n_add" THEN n ELSE 0)
    /\ \E n \in 0..MaxBatch : metadatas = MetadatasOf(IF pc = "n_add" THEN n ELSE 0)
    /\ ids \in {<<>>} \cup {<<IdsOf(n)>> : n \in 0..MaxBatch}
    /\ pc # "n_add" => ids = <<>>
    /\ upserted = <<>>
    /\ ingester = "none"
    /\ clear_existing = FALSE
    /\ documents = <<>>
    /\ doc_index = 0
    /\ summary = NoSummary
    /\ retrieved_docs = <<>>
    /\ max_context_length = DefaultMaxContextLength
    /\ context = <<>>
    /\ outcome = "none"
    /\ exc = <<>>
    /\ NoRequest
    /\ NoChunker
    /\ NoCache

\* what no call to the index client changes
indexFrame == <<servingVars, retrieved_docs, max_context_length, context,
                chunkVars, cacheVars, client, embedding_dim, texts, embeddings,
                metadatas, ids, ingester, clear_existing, documents,
                doc_index, summary>>

\* vectordb QdrantVectorDB(vector_size=...): get_collections raises and the
\* exception is raised again, or the collection is ensured
VectorDBConstruct ==
    /\ pc = "n_construct"
    /\ client = "vectordb"
    /\ pc' = "n_constructed"
    /\ \/ /\ outcome' = "returned"
          /\ collection_size' = EnsureCollectionExists(collection_size, vector_size)
          /\ UNCHANGED exc
       \/ /\ outcome' = "raised"
          /\ exc' = ServerError
          /\ UNCHANGED collection_size
    /\ UNCHANGED <<indexFrame, collection, vector_size, upserted>>

\* vectorstore QdrantVectorDB(vector_size=...)
VectorStoreConstruct ==
    /\ pc = "n_construct"
    /\ client = "vectorstore"
    /\ pc' = "n_constructed"
    /\ \/ /\ outcome' = "returned"
          /\ collection_size' = StoreEnsureCollectionExists(collection_size, vector_size)
          /\ collection' = IF Recreated(collection_size, vector_size)
                           THEN {} ELSE collection
          /\ UNCHANGED exc
       \/ /\ outcome' = "raised"
          /\ exc' = ServerError
          /\ UNCHANGED <<collection_size, collection>>
    /\ UNCHANGED <<indexFrame, vector_size, upserted>>

\* RAGPipeline.__init__: self.vector_db = vector_db or
\* create_qdrant_client(vector_size=embedding_dim)
PipelineCreateClient ==
    /\ pc = "n_pipeline"
    /\ IF vector_size # 0
       THEN /\ pc' = "n_verify"
            /\ UNCHANGED <<vector_size, collection_size, outcome, exc>>
       ELSE \/ /\ pc' = "n_verify"
               /\ vector_size' = embedding_dim
               /\ collection_size' = EnsureCollectionExists(collection_size, embedding_dim)
               /\ UNCHANGED <<outcome, exc>>
            \/ /\ pc' = "n_initialised"
               /\ outcome' = "raised"
               /\ exc' = ServerError
               /\ UNCHANGED <<vector_size, collection_size>>
    /\ UNCHANGED <<indexFrame, collection, upserted>>

\* RAGPipeline.__init__: the try block around get_collection_info and
\* update_vector_size, which recreates the collection only when the size
\* asked for differs from self.vector_size of the client
PipelineVerifyDimension ==
    /\ pc = "n_verify"
    /\ pc' = "n_initialised"
    /\ outcome' = "returned"
    /\ \E info_size \in InfoSizes(collection_size) :
          IF info_size # embedding_dim /\ embedding_dim # vector_size
          THEN /\ vector_size' = embedding_dim
               /\ collection_size' = EnsureCollectionExists(<<>>, embedding_dim)
               /\ collection' = {}
          ELSE UNCHANGED <<vector_size, collection_size, collection>>
    /\ UNCHANGED <<indexFrame, upserted, exc>>

\* the body both add_documents share: the length check, the zip, the upsert,
\* which the server accepts or refuses
AddDocuments ==
    /\ pc' = "n_added"
    /\ IF LengthsDiffer(texts, embeddings, metadatas)
       THEN /\ outcome' = "raised"
            /\ exc' = LengthError
            /\ UNCHANGED <<collection, upserted>>
       ELSE LET points == Points(texts, embeddings, metadatas, ids)
            IN  \/ /\ outcome' = "returned"
                   /\ collection' = Upsert(collection, points)
                   /\ upserted' = Append(upserted, points)
                   /\ UNCHANGED exc
                \/ /\ outcome' = "raised"
                   /\ exc' = ServerError
                   /\ UNCHANGED <<collection, upserted>>
    /\ UNCHANGED <<indexFrame, collection_size, vector_size>>

\* vectordb QdrantVectorDB.add_documents(texts, embeddings, metadatas, ids)
VectorDBAddDocuments ==
    /\ pc = "n_add"
    /\ client = "vectordb"
    /\ AddDocuments

\* vectorstore QdrantVectorDB.add_documents(texts, embeddings, metadatas, ids)
VectorStoreAddDocuments ==
    /\ pc = "n_add"
    /\ client = "vectorstore"
    /\ AddDocuments

IndexNext ==
    \/ VectorDBConstruct
    \/ VectorStoreConstruct
    \/ PipelineCreateClient
    \/ PipelineVerifyDimension
    \/ VectorDBAddDocuments
    \/ VectorStoreAddDocuments

SpecIndex == IndexInit /\ [][IndexNext]_vars

\* ------------------------------------------------------------- ingestion
\* One ingestion run of DataIngestionPipeline.ingest_documents, of
\* IngestionService.ingest_documents or of RAGPipeline.add_documents. The
\* parser and the chunker have done their work: documents[d] is the number
\* of chunks chunk_text returns for the d-th parsed document.
MaxIngestDocs == 2
MaxDocChunks == 2

Ingesters == {"DataIngestionPipeline", "IngestionService", "RAGPipeline"}
DocumentLists == UNION {[1..n -> 0..MaxDocChunks] : n \in 0..MaxIngestDocs}

\* the points add_documents builds for the n chunks of document d
ChunkPoints(d, n) ==
    [k \in 1..n |->
        Point(<<"chunk", d, k>>, <<1>>, {<<"document", d>>, <<"chunk_id", k - 1>>},
              <<"uuid", d, k>>)]

RECURSIVE AllChunkPoints(_, _)
\* the points of the chunks of documents d.. in one list
AllChunkPoints(docs, d) ==
    IF d > Len(docs) THEN <<>>
    ELSE ChunkPoints(d, docs[d]) \o AllChunkPoints(docs, d + 1)

RECURSIVE NextDocument(_, _)
\* the next document after d that has chunks (if not chunks: continue), or
\* Len(docs) + 1 when the loop is over
NextDocument(docs, d) ==
    IF d + 1 > Len(docs) THEN Len(docs) + 1
    ELSE IF docs[d + 1] > 0 THEN d + 1
    ELSE NextDocument(docs, d + 1)

\* the points one add_documents call of the run writes: those of document d
\* in the loop of DataIngestionPipeline, those of all documents otherwise
Batch(who, docs, d) ==
    IF who = "DataIngestionPipeline" THEN ChunkPoints(d, docs[d])
    ELSE AllChunkPoints(docs, 1)

\* the dict returned when nothing was found to ingest
EmptySummary(who) ==
    IF who = "DataIngestionPipeline"
    THEN [status |-> "warning", documents_processed |-> <<0>>]
    ELSE IF who = "RAGPipeline"
    THEN [status |-> "error", documents_processed |-> <<>>]
    ELSE [success |-> FALSE, files_processed |-> 0, total_chunks |-> 0]

\* the dict the except block returns
ErrorSummary(who) ==
    IF who = "IngestionService"
    THEN [success |-> FALSE, files_processed |-> 0, total_chunks |-> 0]
    ELSE [status |-> "error", documents_processed |-> <<0>>]

\* the dict returned at the end of the run
SuccessSummary(who, docs) ==
    IF who = "IngestionService"
    THEN [success |-> TRUE, files_processed |-> Len(docs),
          total_chunks |-> Len(AllChunkPoints(docs, 1))]
    ELSE [status |-> "success", documents_processed |-> <<Len(docs)>>]

\* nothing to ingest: no parsed document, or for add_documents no chunk
NothingToIngest(who, docs) ==
    IF who = "RAGPipeline" THEN AllChunkPoints(docs, 1) = <<>> ELSE docs = <<>>

\* clear_collection runs only in DataIngestionPipeline; the two other entry
\* points print a message at most
Clears(who, clear) == who = "DataIngestionPipeline" /\ clear

IngestInit ==
    /\ pc = "i_call"
    /\ ingester \in Ingesters
    /\ clear_existing \in (IF ingester = "RAGPipeline" THEN {FALSE} ELSE BOOLEAN)
    /\ documents \in DocumentLists
    /\ doc_index = 0
    /\ summary = NoSummary
    /\ client = (IF ingester = "RAGPipeline" THEN "vectordb" ELSE "vectorstore")
    /\ collection \in {{}, {StoredPoint}}
    /\ collection_size = <<1>>
    /\ vector_size = 1
    /\ embedding_dim = 1
    /\ texts = <<>>
    /\ embeddings = <<>>
    /\ metadatas = <<>>
    /\ ids = <<>>
    /\ upserted = <<>>
    /\ retrieved_docs = <<>>
    /\ max_context_length = DefaultMaxContextLength
    /\ context = <<>>
    /\ outcome = "none"
    /\ exc = <<>>
    /\ NoRequest
    /\ NoChunker
    /\ NoCache

\* what no step of an ingestion run changes
ingestFrame == <<servingVars, retrieved_docs, max_context_length, context,
                 chunkVars, cacheVars, client, collection_size, vector_size,
                 embedding_dim, texts, embeddings, metadatas, ids, ingester,
                 clear_existing, documents>>

\* the run returns dict s
IngestReturns(s) ==
    /\ pc' = "i_done"
    /\ outcome' = "returned"
    /\ summary' = s

\* the try block up to the first embedding: the clear, whose failure
\* clear_collection swallows, and the documents found
IngestStart ==
    /\ pc = "i_call"
    /\ \E cleared \in (IF Clears(ingester, clear_existing) THEN BOOLEAN ELSE {FALSE}) :
          collection' = IF cleared THEN {} ELSE collection
    /\ IF NothingToIngest(ingester, documents)
       THEN /\ IngestReturns(EmptySummary(ingester))
            /\ UNCHANGED doc_index
       ELSE IF ingester = "DataIngestionPipeline"
               /\ NextDocument(documents, 0) > Len(documents)
       THEN /\ IngestReturns(SuccessSummary(ingester, documents))
            /\ UNCHANGED doc_index
       ELSE /\ pc' = "i_embed"
            /\ doc_index' = IF ingester = "DataIngestionPipeline"
                            THEN NextDocument(documents, 0) ELSE 1
            /\ UNCHANGED <<outcome, summary>>
    /\ UNCHANGED <<ingestFrame, upserted, exc>>

\* embeddings = embedding_service.encode(texts)
IngestEmbed ==
    /\ pc = "i_embed"
    /\ \/ /\ pc' = "i_upsert"
          /\ UNCHANGED <<outcome, summary, exc>>
       \/ /\ IngestReturns(ErrorSummary(ingester))
          /\ exc' = EmbedError
    /\ UNCHANGED <<ingestFrame, collection, upserted, doc_index>>

\* vector_db.add_documents(texts, embeddings, metadatas), then the next
\* document of the loop or the end of the run
IngestUpsert ==
    /\ pc = "i_upsert"
    /\ \/ /\ collection' = Upsert(collection, Batch(ingester, documents, doc_index))
          /\ upserted' = Append(upserted, Batch(ingester, documents, doc_index))
          /\ IF ingester = "DataIngestionPipeline"
                /\ NextDocument(documents, doc_index) <= Len(documents)
             THEN /\ pc' = "i_embed"
                  /\ doc_index' = NextDocument(documents, doc_index)
                  /\ UNCHANGED <<outcome, summary>>
             ELSE /\ IngestReturns(SuccessSummary(ingester, documents))
                  /\ UNCHANGED doc_index
          /\ UNCHANGED exc
       \/ /\ IngestReturns(ErrorSummary(ingester))
          /\ exc' = ServerError
          /\ UNCHANGED <<collection, upserted, doc_index>>
    /\ UNCHANGED ingestFrame

IngestNext ==
    \/ IngestStart
    \/ IngestEmbed
    \/ IngestUpsert

SpecIngest == IngestInit /\ [][IngestNext]_vars

\* ----------------------------------------------------------- EmbeddingCache
\* largest max_size, number of texts and longest access_order followed
MaxCacheSize == 2
NumKeys == 3
MaxOrderLength == 4

CacheSizes == 1..MaxCacheSize
Keys == {<<"text", i>> : i \in 1..NumKeys}
CachedEmbeddings == {<<1>>}

\* str(e) of the exceptions of list.pop, del and list.remove
IndexError == <<"pop from empty list">>
KeyError == <<"KeyError">>
ValueError == <<"list.remove(x): x not in list">>

\* x in list
In(x, list) == \E i \in 1..Len(list) : list[i] = x

\* list.remove(x) for x in list: the first occurrence goes
ListRemove(list, x) ==
    LET first == CHOOSE i \in 1..Len(list) :
                     list[i] = x /\ \A j \in 1..(i - 1) : list[j] # x
    IN  SubSeq(list, 1, first - 1) \o SubSeq(list, first + 1, Len(list))

\* del d[key]
DictDel(d, key) == [k \in DOMAIN d \ {key} |-> d[k]]

\* d[key] = value
DictSet(d, key, value) ==
    [k \in DOMAIN d \cup {key} |-> IF k = key THEN value ELSE d[k]]

\* len(self.cache) >= self.max_size
Full == Cardinality(DOMAIN cache) >= max_size

\* the keys in the order of their last use, with `key` used now
Used(order, key) ==
    (IF In(key, order) THEN ListRemove(order, key) ELSE order) \o <<key>>

\* the record kept of a call: its name and key, whether the key was new and
\* the cache full when it was made, the least recently used key then, the
\* keys it removed from the cache
CacheOp(name, key, evicted) ==
    [name    |-> name,
     key     |-> key,
     new_key |-> key \notin DOMAIN cache,
     full    |-> Full,
     lru     |-> IF recency = <<>> THEN <<>> ELSE <<Head(recency)>>,
     evicted |-> evicted]

CacheInit ==
    /\ pc = "e_ready"
    /\ cache = <<>>
    /\ access_order = <<>>
    /\ max_size \in CacheSizes
    /\ recency = <<>>
    /\ cache_op = [name |-> "none"]
    /\ threads = <<>>
    /\ written = <<>>
    /\ retrieved_docs = <<>>
    /\ max_context_length = DefaultMaxContextLength
    /\ context = <<>>
    /\ collection = {}
    /\ outcome = "none"
    /\ exc = <<>>
    /\ NoRequest
    /\ NoChunker
    /\ NoIndex

\* what no call to the cache changes
cacheFrame == <<pc, servingVars, retrieved_docs, max_context_length, context,
                collection, chunkVars, indexVars, max_size, threads,
                written>>

\* EmbeddingCache.get(text)
CacheGet ==
    /\ pc = "e_ready"
    /\ \E text \in Keys :
          /\ cache_op' = CacheOp("get", text, {})
          /\ IF text \in DOMAIN cache
             THEN IF In(text, access_order)
                  THEN /\ access_order' = Append(ListRemove(access_order, text), text)
                       /\ recency' = Used(recency, text)
                       /\ outcome' = "returned"
                       /\ exc' = <<>>
                  ELSE /\ outcome' = "raised"
                       /\ exc' = ValueError
                       /\ UNCHANGED <<access_order, recency>>
             ELSE /\ outcome' = "returned"
                  /\ exc' = <<>>
                  /\ UNCHANGED <<access_order, recency>>
    /\ UNCHANGED <<cacheFrame, cache>>

\* EmbeddingCache.put(text, embedding)
CachePut ==
    /\ pc = "e_ready"
    /\ Full \/ Len(access_order) < MaxOrderLength
    /\ \E text \in Keys, embedding \in CachedEmbeddings :
          IF ~Full
          THEN /\ cache' = DictSet(cache, text, embedding)
               /\ access_order' = Append(access_order, text)
               /\ recency' = Used(recency, text)
               /\ cache_op' = CacheOp("put", text, {})
               /\ outcome' = "returned"
               /\ exc' = <<>>
          ELSE IF access_order = <<>>
          THEN /\ outcome' = "raised"
               /\ exc' = IndexError
               /\ cache_op' = CacheOp("put", text, {})
               /\ UNCHANGED <<cache, access_order, recency>>
          ELSE LET oldest == Head(access_order)
               IN  IF oldest \notin DOMAIN cache
                   THEN /\ outcome' = "raised"
                        /\ exc' = KeyError
                        /\ access_order' = Tail(access_order)
                        /\ cache_op' = CacheOp("put", text, {})
                        /\ UNCHANGED <<cache, recency>>
                   ELSE /\ cache' = DictSet(DictDel(cache, oldest), text, embedding)
                        /\ access_order' = Append(Tail(access_order), text)
                        /\ recency' = Used(SelectSeq(recency, LAMBDA k : k # oldest), text)
                        /\ cache_op' = CacheOp("put", text, {oldest} \ {text})
                        /\ outcome' = "returned"
                        /\ exc' = <<>>
    /\ UNCHANGED cacheFrame

\* EmbeddingCache.clear()
CacheClear ==
    /\ pc = "e_ready"
    /\ cache' = <<>>
    /\ access_order' = <<>>
    /\ recency' = <<>>
    /\ cache_op' = CacheOp("clear", <<>>, DOMAIN cache)
    /\ outcome' = "returned"
    /\ exc' = <<>>
    /\ UNCHANGED cacheFrame

CacheNext ==
    \/ CacheGet
    \/ CachePut
    \/ CacheClear

SpecCache == CacheInit /\ [][CacheNext]_vars

\* ------------------------------------------- EmbeddingCache, several threads
\* The class takes no lock: the calls of different threads interleave at the
\* single operations on self.cache and self.access_order.
NumThreads == 2
MaxCalls == 2

Threads == 1..NumThreads

\* a thread between two calls, `left` calls still to make
Between(left) ==
    [at |-> "between", text |-> <<>>, embedding |-> <<>>, oldest |-> <<>>,
     exc |-> <<>>, left |-> left]

ThreadInit ==
    /\ pc = "t_run"
    /\ cache = <<>>
    /\ access_order = <<>>
    /\ max_size \in CacheSizes
    /\ recency = <<>>
    /\ cache_op = [name |-> "none"]
    /\ threads = [t \in Threads |-> Between(MaxCalls)]
    /\ written = <<>>
    /\ retrieved_docs = <<>>
    /\ max_context_length = DefaultMaxContextLength
    /\ context = <<>>
    /\ collection = {}
    /\ outcome = "none"
    /\ exc = <<>>
    /\ NoRequest
    /\ NoChunker
    /\ NoIndex

\* what no step of a thread changes
threadFrame == <<pc, servingVars, retrieved_docs, max_context_length, context,
                 collection, outcome, exc, chunkVars, indexVars, max_size,
                 recency, cache_op>>

\* the call of thread t has returned
ThreadReturns(t) ==
    threads' = [threads EXCEPT ![t] = Between(threads[t].left)]

\* the call of thread t has raised e
ThreadRaises(t, e) ==
    threads' = [threads EXCEPT ![t] = [Between(threads[t].left) EXCEPT !.exc = e]]

\* thread t goes on to the statement `at`
ThreadGoes(t, at) ==
    threads' = [threads EXCEPT ![t].at = at]

\* thread t calls get(text): if text in self.cache
ThreadGet(t) ==
    /\ pc = "t_run"
    /\ threads[t].at = "between"
    /\ threads[t].left > 0
    /\ \E text \in Keys :
          threads' = [threads EXCEPT ![t] =
              [at |-> IF text \in DOMAIN cache THEN "g_remove" ELSE "between",
               text |-> text, embedding |-> <<>>, oldest |-> <<>>, exc |-> <<>>,
               left |-> threads[t].left - 1]]
    /\ UNCHANGED <<threadFrame, cache, access_order, written>>

\* self.access_order.remove(text)
ThreadGetRemove(t) ==
    /\ pc = "t_run"
    /\ threads[t].at = "g_remove"
    /\ IF In(threads[t].text, access_order)
       THEN /\ access_order' = ListRemove(access_order, threads[t].text)
            /\ ThreadGoes(t, "g_append")
       ELSE /\ ThreadRaises(t, ValueError)
            /\ UNCHANGED access_order
    /\ UNCHANGED <<threadFrame, cache, written>>

\* self.access_order.append(text)
ThreadGetAppend(t) ==
    /\ pc = "t_run"
    /\ threads[t].at = "g_append"
    /\ access_order' = Append(access_order, threads[t].text)
    /\ ThreadGoes(t, "g_return")
    /\ UNCHANGED <<threadFrame, cache, written>>

\* return self.cache[text]
ThreadGetReturn(t) ==
    /\ pc = "t_run"
    /\ threads[t].at = "g_return"
    /\ IF threads[t].text \in DOMAIN cache
       THEN ThreadReturns(t)
       ELSE ThreadRaises(t, KeyError)
    /\ UNCHANGED <<threadFrame, cache, access_order, written>>

\* thread t calls put(text, embedding): if len(self.cache) >= self.max_size
ThreadPut(t) ==
    /\ pc = "t_run"
    /\ threads[t].at = "between"
    /\ threads[t].left > 0
    /\ \E text \in Keys :
          threads' = [threads EXCEPT ![t] =
              [at |-> IF Full THEN "p_pop" ELSE "p_set",
               text |-> text, embedding |-> <<t>>, oldest |-> <<>>, exc |-> <<>>,
               left |-> threads[t].left - 1]]
    /\ UNCHANGED <<threadFrame, cache, access_order, written>>

\* oldest = self.access_order.pop(0)
ThreadPutPop(t) ==
    /\ pc = "t_run"
    /\ threads[t].at = "p_pop"
    /\ IF access_order = <<>>
       THEN /\ ThreadRaises(t, IndexError)
            /\ UNCHANGED access_order
       ELSE /\ access_order' = Tail(access_order)
            /\ threads' = [threads EXCEPT ![t].at = "p_del",
                                          ![t].oldest = <<Head(access_order)>>]
    /\ UNCHANGED <<threadFrame, cache, written>>

\* del self.cache[oldest]
ThreadPutDel(t) ==
    /\ pc = "t_run"
    /\ threads[t].at = "p_del"
    /\ IF threads[t].oldest[1] \in DOMAIN cache
       THEN /\ cache' = DictDel(cache, threads[t].oldest[1])
            /\ ThreadGoes(t, "p_set")
       ELSE /\ ThreadRaises(t, KeyError)
            /\ UNCHANGED cache
    /\ UNCHANGED <<threadFrame, access_order, written>>

\* self.cache[text] = embedding
ThreadPutSet(t) ==
    /\ pc = "t_run"
    /\ threads[t].at = "p_set"
    /\ cache' = DictSet(cache, threads[t].text, threads[t].embedding)
    /\ written' = DictSet(written, threads[t].text, threads[t].embedding)
    /\ ThreadGoes(t, "p_append")
    /\ UNCHANGED <<threadFrame, access_order>>

\* self.access_order.append(text)
ThreadPutAppend(t) ==
    /\ pc = "t_run"
    /\ threads[t].at = "p_append"
    /\ access_order' = Append(access_order, threads[t].text)
    /\ ThreadReturns(t)
    /\ UNCHANGED <<threadFrame, cache, written>>

ThreadNext ==
    \E t \in Threads :
        \/ ThreadGet(t)
        \/ ThreadGetRemove(t)
        \/ ThreadGetAppend(t)
        \/ ThreadGetReturn(t)
        \/ ThreadPut(t)
        \/ ThreadPutPop(t)
        \/ ThreadPutDel(t)
        \/ ThreadPutSet(t)
        \/ ThreadPutAppend(t)

SpecCacheThreads == ThreadInit /\ [][ThreadNext]_vars

\* ------------------------------------------------------------------ claims
\* the calls made to capability svc while serving the request
CallsTo(svc) == SelectSeq(calls, LAMBDA c : c.svc = svc)

\* the conversation has a message of role user
HasUserTurn(msgs) == \E i \in 1..Len(msgs) : msgs[i].role = "user"

\* index of the latest message of role user
LatestUserIndex(msgs) ==
    CHOOSE i \in 1..Len(msgs) :
        /\ msgs[i].role = "user"
        /\ \A j \in (i + 1)..Len(msgs) : msgs[j].role # "user"

\* one turn as it stands in a chat prompt
TurnText(m) ==
    <<"<|start_header_id|>", m.role, "<|end_header_id|>">> \o m.content \o <<"<|eot_id|>">>

ExceptionTexts == {EmbedError, SearchError, GenerateError, KeywordError}

\* C1: RAGPipeline.query never raises: whichever of the embedding call, the
\* index search and the generation call fail, it makes at most three external
\* calls and returns a dict with answer, sources and context_used.
C1_QueryAlwaysReturns ==
    op = "query" =>
        /\ outcome # "raised"
        /\ Len(calls) <= 3
        /\ pc = "done" =>
               /\ outcome = "returned"
               /\ {"answer", "sources", "context_used"} \subseteq result.keys

\* a query whose index search raised has returned
C1_Witness ==
    /\ op = "query"
    /\ pc = "done"
    /\ failed = "search"
    /\ outcome = "returned"

\* C2: RAGPipeline.chat never raises: with a user message in the list, a
\* failure of the embedding call, the index search or the generation call
\* ends in a returned dict with answer and error.
C2_ChatNeverRaises ==
    (op = "chat" /\ HasUserTurn(messages)) =>
        /\ outcome # "raised"
        /\ (pc = "done" /\ failed # "none") =>
               /\ outcome = "returned"
               /\ {"answer", "error"} \subseteq result.keys

\* C3: a failure of the embedding call, the index search or the generation
\* call during RAGPipeline.query ends in the failed result: error field,
\* fixed apology, no sources, context_used false.
C3_FailureEndsFailed ==
    (op = "query" /\ pc = "done" /\ failed # "none") =>
        /\ "error" \in result.keys
        /\ result.answer = QueryApology
        /\ result.sources = <<>>
        /\ result.context_used = FALSE

\* C4: the answer delivered by a query or chat request never contains the
\* text of a caught exception.
C4_AnswerHidesException ==
    (pc = "done" /\ outcome = "returned"
        /\ op \in {"query", "chat", "chat_query", "chat_with_history", "run_chatbot"}) =>
        \A e \in ExceptionTexts : ~IsSubstr(e, result.answer)

\* C5: chat on a list without a user message returns the fixed "no question
\* received" answer with no sources and context_used false, and calls none
\* of the external capabilities.
C5_ChatShortCircuit ==
    (op = "chat" /\ pc # "c_start" /\ ~HasUserTurn(messages)) =>
        /\ pc = "done"
        /\ outcome = "returned"
        /\ result.answer = NoQuestionAnswer
        /\ result.sources = <<>>
        /\ result.context_used = FALSE
        /\ "error" \notin result.keys
        /\ calls = <<>>

\* chat on a non-empty list of assistant messages has returned
C5_Witness ==
    /\ op = "chat"
    /\ pc = "done"
    /\ Len(messages) >= 1
    /\ ~HasUserTurn(messages)
    /\ outcome = "returned"

C7_NoRetrievalWithoutContext ==
    (op = "query" /\ ~include_context) =>
        /\ CallsTo("embed") = <<>>
        /\ CallsTo("search") = <<>>

\* C8: a ChatbotService request that supplies top_k and score_threshold ends
\* in a normal result, and its search ran with the supplied limit and threshold.
C8_RequestParametersUsed ==
    (op \in {"chat_query", "chat_with_history"} /\ pc = "done"
        /\ req_top_k # <<>> /\ req_score_threshold # <<>>) =>
        /\ result.success
        /\ "error" \notin result.keys
        /\ \A i \in 1..Len(calls) :
               calls[i].svc = "search" =>
                   /\ calls[i].limit = req_top_k[1]
                   /\ calls[i].threshold = req_score_threshold

\* no stored record reaches the score threshold of the pipeline
ZeroMatches == \A d \in collection : d.score < score_threshold

\* C9: when the index search of a query with include_context returns zero
\* results, the generation service is still called exactly once and the
\* result has context_used false, no sources and no error field.
C9_NoContextIsLegitimate ==
    (op = "query" /\ pc = "done" /\ include_context
        /\ failed \notin {"embed", "search"}
        /\ (retrieved_docs = <<>> \/ ZeroMatches)) =>
        /\ outcome = "returned"
        /\ Len(CallsTo("search")) = 1
        /\ Len(CallsTo("generate")) = 1
        /\ result.context_used = FALSE
        /\ result.sources = <<>>
        /\ result.num_sources = 0
        /\ "error" \notin result.keys

\* a query over a non-empty collection whose scores are all below the
\* threshold has returned
C9_Witness ==
    /\ op = "query"
    /\ pc = "done"
    /\ include_context
    /\ failed = "none"
    /\ collection # {}
    /\ ZeroMatches

FirstFormatted == FormatChunk(retrieved_docs[1])

\* the first result alone is longer than max_length
FirstOversized ==
    /\ retrieved_docs # <<>>
    /\ Len(FirstFormatted) > max_context_length

\* C11: the string _prepare_context returns is never longer than max_length
\* plus the fixed buffer, whatever the results and whatever max_length >= 0,
\* the truncated first result with its ellipsis included.
C11_ContextWithinBudget ==
    pc = "p_done" => Len(context) <= max_context_length + TruncationBuffer

\* two results were given, the first was kept whole and the second left out
C11_Witness ==
    /\ pc = "p_done"
    /\ Len(retrieved_docs) = 2
    /\ context = FirstFormatted
    /\ Len(FirstFormatted) + 2 + Len(FormatChunk(retrieved_docs[2])) > max_context_length

\* C12 as stated: when the first formatted result alone is longer than
\* max_length, _prepare_context returns a non-empty context, a prefix of that
\* result followed by the ellipsis; it never returns the empty context.
C12_OversizedFirstTruncated ==
    (pc = "p_done" /\ FirstOversized) =>
        /\ context # <<>>
        /\ \E n \in 0..Len(FirstFormatted) :
              context = SubSeq(FirstFormatted, 1, n) \o Ellipsis

\* C12 amended: when the first formatted result alone is longer than
\* max_length, the context is the first max_length - 50 characters of that
\* result followed by the ellipsis if more than 100 characters remain after
\* the buffer (max_length > 150), and the empty context otherwise.
C12_OversizedFirstTruncatedIfRoom ==
    (pc = "p_done" /\ FirstOversized) =>
        IF max_context_length > 150
        THEN context = SubSeq(FirstFormatted, 1, max_context_length - 50) \o Ellipsis
        ELSE context = <<>>

\* an oversized first result was cut to fit
C12_Witness ==
    /\ pc = "p_done"
    /\ FirstOversized
    /\ max_context_length > 150
    /\ Len(context) = max_context_length - 50 + 3

\* number of words of the text handed to chunk_text
NumWords == Len(Split(text_in))

\* 0 <= overlap < chunk_size
ValidWindow == overlap < chunk_size

\* number of words of a returned chunk
ChunkWords(c) == Len(Split(c.text))

\* C13: for any text and any window with 0 <= overlap < chunk_size, every
\* word index of the text lies in the range [start_word, end_word) of at
\* least one chunk chunk_text returns.
C13_ChunksCoverText ==
    (pc = "k_done" /\ ValidWindow) =>
        /\ outcome = "returned"
        /\ \A w \in 0..(NumWords - 1) :
              \E k \in 1..Len(chunk_result) :
                  /\ chunk_result[k].start_word <= w
                  /\ w < chunk_result[k].end_word

\* a text of four words was cut into overlapping chunks
C13_Witness ==
    /\ pc = "k_done"
    /\ ValidWindow
    /\ overlap = 1
    /\ chunk_size = 3
    /\ NumWords = 4
    /\ Len(chunk_result) = 2

\* C14: with a valid window every chunk has at most chunk_size words, and
\* every chunk but the last one returned has exactly chunk_size words.
C14_OnlyFinalChunkShorter ==
    (pc = "k_done" /\ ValidWindow) =>
        \A k \in 1..Len(chunk_result) :
            /\ ChunkWords(chunk_result[k]) <= chunk_size
            /\ k < Len(chunk_result) => ChunkWords(chunk_result[k]) = chunk_size

\* C15: with a valid window, consecutive chunks k and k+1, k+1 not being the
\* last chunk, share exactly `overlap` words.
C15_ExactOverlap ==
    (pc = "k_done" /\ ValidWindow) =>
        \A k \in 1..(Len(chunk_result) - 2) :
            chunk_result[k].end_word - chunk_result[k + 1].start_word = overlap

\* C16: for a non-empty text, chunk_text called with overlap >= chunk_size
\* fails with an error; it does not return.
C16_InvalidWindowFails ==
    (pc = "k_done" /\ text_in # <<>> /\ overlap >= chunk_size) =>
        outcome = "raised"

\* C17: for a non-empty text with fewer words than chunk_size and a valid
\* window, chunk_text returns exactly one chunk, holding the whole input,
\* with overlap_size 0.
C17_ShortInputOneChunk ==
    (/\ pc = "k_done"
     /\ chunker = "TextChunker"
     /\ text_in # <<>>
     /\ NumWords < chunk_size
     /\ ValidWindow) =>
        /\ Len(chunk_result) = 1
        /\ chunk_result[1].start_word = 0
        /\ chunk_result[1].end_word = NumWords
        /\ chunk_result[1].overlap_size = 0

\* the lengths of ids, embeddings, texts and metadatas are not all equal
ShapesDiffer ==
    \/ LengthsDiffer(texts, embeddings, metadatas)
    \/ ids # <<>> /\ Len(ids[1]) # Len(texts)

\* C18: add_documents fails with an error and writes nothing whenever the
\* lengths of ids, embeddings, texts and metadatas are not all equal,
\* caller-supplied ids fewer or more than the texts included.
C18_ShapeMismatchRejected ==
    (pc = "n_added" /\ ShapesDiffer) =>
        /\ outcome = "raised"
        /\ upserted = <<>>

\* C19: once a client has been constructed for vector size d, and once
\* RAGPipeline.__init__ has run against an embedding service of dimension d,
\* the named collection exists with vector size d.
C19_CollectionHasServiceDimension ==
    /\ (pc = "n_constructed" /\ outcome = "returned") =>
           collection_size = <<vector_size>>
    /\ (pc = "n_initialised" /\ outcome = "returned") =>
           collection_size = <<embedding_dim>>

\* C20: after any sequence of get and put calls with max_size >= 1 the cache
\* holds at most max_size entries, and every put of a new key into a full
\* cache returns having evicted exactly the least recently used entry.
C20_BoundedLRU ==
    pc = "e_ready" =>
        /\ Cardinality(DOMAIN cache) <= max_size
        /\ (cache_op.name = "put" /\ cache_op.new_key /\ cache_op.full) =>
               /\ outcome = "returned"
               /\ <<>> # cache_op.lru
               /\ cache_op.evicted = {cache_op.lru[1]}

\* the positions of a chat call in progress
ChatSteps == {"c_start", "c_embed", "c_search", "c_generate"}

StepOf(svc) == IF svc = "embed" THEN 1 ELSE IF svc = "search" THEN 2 ELSE 3

\* C26: within one query call the embedding service, the index search and
\* the generation service are each called at most once and in that order,
\* generation only after the search when context is asked for; after one of
\* them has failed no further external call is made.
C26_LinearWithoutRetry ==
    op = "query" =>
        /\ \A i \in 1..Len(calls) : \A j \in (i + 1)..Len(calls) :
               StepOf(calls[i].svc) < StepOf(calls[j].svc)
        /\ (CallsTo("generate") # <<>> /\ include_context) =>
               CallsTo("search") # <<>>
        /\ CallsTo("search") # <<>> => CallsTo("embed") # <<>>
        /\ failed # "none" =>
               /\ calls # <<>>
               /\ calls[Len(calls)].svc = failed

\* a query with context has made its three calls, one after the other
C26_Witness ==
    /\ op = "query"
    /\ pc = "done"
    /\ include_context
    /\ Len(calls) = 3
    /\ failed = "none"

\* C28: when chat has retrieved results that give a non-empty context, the
\* message list passed to the generation service is the input list with only
\* the latest user message's content replaced by context plus question.
C28_ContextOnLatestUserTurn ==
    LET ctx == PrepareContext(retrieved_docs, ChatMaxContextLength)
        u   == LatestUserIndex(messages)
    IN  (/\ op = "chat"
         /\ pc = "done"
         /\ include_context
         /\ CallsTo("search") # <<>>
         /\ failed = "none"
         /\ ctx # <<>>)
        => /\ CallsTo("generate") # <<>>
           /\ enhanced_messages =
                  [messages EXCEPT ![u] = EnhancedMessage(ctx, messages[u].content)]

\* C29: the query_embedding that query and chat pass to the index search is a
\* single vector (one dimension), not the one-row batch encode returns.
C29_QueryVectorShape ==
    op \in {"query", "chat"} =>
        \A i \in 1..Len(calls) : calls[i].svc = "search" => calls[i].ndim = 1

\* C25: with a valid window, the overlap_size of every chunk TextChunker
\* returns is the number of words it shares with the chunk before it (that
\* chunk's end_word minus its own start_word), and 0 for the first chunk.
C25_OverlapSizeTruthful ==
    (pc = "k_done" /\ chunker = "TextChunker" /\ ValidWindow) =>
        \A k \in 1..Len(chunk_result) :
            chunk_result[k].overlap_size =
                IF k = 1 THEN 0
                ELSE chunk_result[k - 1].end_word - chunk_result[k].start_word

\* C27: after any sequence of put, get and clear calls access_order holds
\* exactly the keys of the cache, each once, and no call has raised.
C27_OrderMatchesCache ==
    pc = "e_ready" =>
        /\ \A k \in DOMAIN cache :
               Cardinality({i \in 1..Len(access_order) : access_order[i] = k}) = 1
        /\ \A i \in 1..Len(access_order) : access_order[i] \in DOMAIN cache
        /\ outcome # "raised"

RECURSIVE WordsBefore(_, _)
\* number of words of the pages before page k, the pages laid end to end
WordsBefore(pages, k) ==
    IF k <= 1 THEN 0
    ELSE WordsBefore(pages, k - 1) + Len(Split(pages[k - 1].content))

\* C24: with a page map supplied, a chunk of TextChunker carries a page
\* number exactly when its start_word is smaller than the number of words of
\* all pages, the number is that of the page whose word range holds
\* start_word, and it is never zero.
C24_PageOfStartWord ==
    (pc = "k_done" /\ chunker = "TextChunker" /\ outcome = "returned"
        /\ pages_content # <<>>) =>
        \A k \in 1..Len(chunk_result) :
            LET c     == chunk_result[k]
                total == WordsBefore(pages_content, Len(pages_content) + 1)
            IN  /\ c.page_number # <<>> <=> c.start_word < total
                /\ c.page_number # <<>> =>
                       /\ c.page_number[1] # 0
                       /\ \E p \in 1..Len(pages_content) :
                              /\ pages_content[p].page_number = c.page_number[1]
                              /\ WordsBefore(pages_content, p) <= c.start_word
                              /\ c.start_word < WordsBefore(pages_content, p + 1)

\* chunks of the first page, of the second page and past the last page
C24_Witness ==
    /\ pc = "k_done"
    /\ chunker = "TextChunker"
    /\ Len(pages_content) = 2
    /\ \E k \in 1..Len(chunk_result) : chunk_result[k].page_number = <<1>>
    /\ \E k \in 1..Len(chunk_result) : chunk_result[k].page_number = <<2>>
    /\ \E k \in 1..Len(chunk_result) : chunk_result[k].page_number = <<>>

\* C21: whatever the interleaving of the threads' get and put calls, no call
\* raises, the cache never holds more than max_size entries, and every key
\* in the cache has the value last stored for it.
C21_ThreadSafeCache ==
    pc = "t_run" =>
        /\ \A t \in Threads : threads[t].exc = <<>>
        /\ Cardinality(DOMAIN cache) <= max_size
        /\ \A k \in DOMAIN cache : cache[k] = written[k]

\* the ingestion run reports success
IngestSucceeded ==
    IF ingester = "IngestionService" THEN summary.success
    ELSE summary.status = "success"

\* the points written by the run
WrittenByRun == UNION {{upserted[b][i] : i \in 1..Len(upserted[b])} : b \in 1..Len(upserted)}

\* C22: after a successful ingestion run requested with clear_existing = true
\* the collection, still of the same vector size, holds exactly the records
\* that run wrote: every record stored before is gone.
C22_ClearAndRebuild ==
    (pc = "i_done" /\ clear_existing /\ IngestSucceeded) =>
        /\ collection = WrittenByRun
        /\ collection_size = <<vector_size>>

\* C30: when DataIngestionPipeline.ingest_documents or
\* RAGPipeline.add_documents returns status "error" with documents_processed
\* 0 after the embedding or the upsert failed, the run has written no record.
C30_FailedIngestionWritesNothing ==
    (/\ pc = "i_done"
     /\ ingester \in {"DataIngestionPipeline", "RAGPipeline"}
     /\ summary.status = "error"
     /\ summary.documents_processed = <<0>>
     /\ exc \in {EmbedError, ServerError}) =>
        /\ upserted = <<>>
        /\ collection \subseteq {StoredPoint}
====
